---- MODULE Spec2Model ----
(***************************************************************************)
(* Model of scripts/fix-circular-deps.py: a two-pass patcher that inlines  *)
(* the __exportAll helper into the .js files of dist/.                     *)
(*                                                                         *)
(* File text is a sequence of tokens.  A token stands for one character    *)
(* class or one literal piece of the two regular expressions:              *)
(*   "IMP"  = 'import { '            "W"   = one \w character              *)
(*   "AS"   = ' as __exportAll } from "./'   (it contains a double quote)  *)
(*   "SUB"  = 'subagent-registry-'   "REP" = 'reply-'                      *)
(*   "JS"   = '.js'     "Q" = '"'    "SEMI" = ';'                          *)
(*   "LF"   = '\n'      "CR" = '\r'                                        *)
(*   "X"    = other text without quote, word character or line ending      *)
(*   "DEF"  = the text of INLINE up to its first double quote              *)
(***************************************************************************)
EXTENDS Integers, Sequences, FiniteSets, TLC

\* Largest number of files under dist/.
MaxFiles == 2
\* Largest number of chunks of text in the whole tree.
MaxChunks == 2

Tokens == {"IMP", "W", "AS", "SUB", "REP", "JS", "Q", "SEMI", "LF", "CR", "X", "DEF"}

\* \w
Word == {"W"}
\* [^"] : every token that holds no double quote
NotQuote == Tokens \ {"Q", "AS"}

Lit(t) == [plus |-> FALSE, set |-> {t}]
Plus(S) == [plus |-> TRUE, set |-> S]

\* The replacement text: var __defProp = ...; var __exportAll = ... { value: "Module" }); ... };\n
INLINE == <<"DEF", "Q", "W", "Q", "X", "SEMI", "LF">>

\* import \{ \w+ as __exportAll \} from "\./subagent-registry-[^"]+\.js";\n
CIRCULAR_PATTERN ==
    <<Lit("IMP"), Plus(Word), Lit("AS"), Lit("SUB"), Plus(NotQuote),
      Lit("JS"), Lit("Q"), Lit("SEMI"), Lit("LF")>>

\* import \{ \w+ as __exportAll \} from "\./reply-[^"]+\.js";\n
RESERVED_PATTERN ==
    <<Lit("IMP"), Plus(Word), Lit("AS"), Lit("REP"), Plus(NotQuote),
      Lit("JS"), Lit("Q"), Lit("SEMI"), Lit("LF")>>

\* Length of the longest run of tokens of S in s that starts at i.
RECURSIVE RunLen(_, _, _)
RunLen(S, s, i) ==
    IF i <= Len(s) /\ s[i] \in S THEN 1 + RunLen(S, s, i + 1) ELSE 0

\* re matching with backtracking: the position after the match of
\* pat[k..] that starts at s[i], or 0 when there is none.  A greedy  +
\* takes the longest run first and gives tokens back one at a time.
RECURSIVE MatchEnd(_, _, _, _)
RECURSIVE TryPlus(_, _, _, _, _)
MatchEnd(pat, k, s, i) ==
    IF k > Len(pat) THEN i
    ELSE IF pat[k].plus THEN TryPlus(pat, k, s, i, RunLen(pat[k].set, s, i))
    ELSE IF i <= Len(s) /\ s[i] \in pat[k].set THEN MatchEnd(pat, k + 1, s, i + 1)
    ELSE 0

TryPlus(pat, k, s, i, n) ==
    IF n < 1 THEN 0
    ELSE LET e == MatchEnd(pat, k + 1, s, i + n)
         IN  IF e # 0 THEN e ELSE TryPlus(pat, k, s, i, n - 1)

\* pattern.sub(repl, s): leftmost non-overlapping matches, each replaced.
RECURSIVE SubFrom(_, _, _, _)
SubFrom(pat, repl, s, i) ==
    IF i > Len(s) THEN <<>>
    ELSE LET e == MatchEnd(pat, 1, s, i)
         IN  IF e # 0 THEN repl \o SubFrom(pat, repl, s, e)
             ELSE <<s[i]>> \o SubFrom(pat, repl, s, i + 1)

\* A substitution that drops the matched line and inserts nothing.
SubDelete(pat, repl, s) == SubFrom(pat, <<>>, s, 1)
Sub(pat, repl, s) == SubFrom(pat, repl, s, 1)

\* open(f, 'r').read(): universal newlines, "\r\n" and "\r" are read as "\n".
RECURSIVE ReadFrom(_, _)
ReadFrom(b, i) ==
    IF i > Len(b) THEN <<>>
    ELSE IF b[i] = "CR"
         THEN IF i < Len(b) /\ b[i + 1] = "LF"
              THEN <<"LF">> \o ReadFrom(b, i + 2)
              ELSE <<"LF">> \o ReadFrom(b, i + 1)
         ELSE <<b[i]>> \o ReadFrom(b, i + 1)

ReadText(b) == ReadFrom(b, 1)

\* os.linesep of a POSIX host.
linesep == <<"LF">>

\* open(f, 'w').write(s): every "\n" is written as os.linesep.
RECURSIVE WriteText(_)
WriteText(s) ==
    IF s = <<>> THEN <<>>
    ELSE (IF Head(s) = "LF" THEN linesep ELSE <<Head(s)>>) \o WriteText(Tail(s))

\* if new_content != content  (WriteAlways: the file is written in any case)
WriteAlways(c, n) == TRUE
NeedsWrite(c, n) == n # c

\* count += 1  (IncrForgotten: the count is left as it was)
IncrForgotten(c) == c
Incr(c) == c + 1

\* glob.glob('dist/**/*.js', recursive=True): the .js files of the tree, in
\* directory order; no file, and no error, when dist/ does not exist.
\* (GlobAll: a glob that is not limited to *.js)
GlobAll(d, exists) == IF exists THEN [i \in 1..Len(d) |-> i] ELSE <<>>
Glob(d, exists) ==
    IF exists THEN SelectSeq([i \in 1..Len(d) |-> i], LAMBDA i : d[i].js) ELSE <<>>

\* An exception raised by open, read or write is caught nowhere and ends
\* the script.  (Swallowed: the loop catches it and goes on)
Swallowed == "loop"
Uncaught == "aborted"

\* The second loop pasted from the first with its pattern left as it was.
PatternCopied(r) == CIRCULAR_PATTERN
PatternOf(r) == IF r = 1 THEN CIRCULAR_PATTERN ELSE RESERVED_PATTERN

\* Both summary lines labelled as the last one.
SummaryMislabelled(r, n) ==
    [step |-> 2, count |-> n, family |-> "reply/in"]
Summary(r, n) ==
    [step |-> r, count |-> n,
     family |-> IF r = 1 THEN "subagent-registry" ELSE "reply/in"]

(***************************************************************************)
(* The build output the patcher may find.                                  *)
(***************************************************************************)
SubImport == <<"IMP", "W", "AS", "SUB", "W", "JS", "Q", "SEMI", "LF">>
ReplyImport == <<"IMP", "W", "AS", "REP", "W", "JS", "Q", "SEMI", "LF">>
ReplyImportCRLF == <<"IMP", "W", "AS", "REP", "W", "JS", "Q", "SEMI", "CR", "LF">>
NoHashImport == <<"IMP", "W", "AS", "SUB", "JS", "Q", "SEMI", "LF">>
CodeLine == <<"X", "SEMI", "LF">>
CodeLineCRLF == <<"X", "SEMI", "CR", "LF">>

Chunks ==
    {SubImport, ReplyImport, ReplyImportCRLF, NoHashImport, CodeLine,
     CodeLineCRLF, INLINE}

\* The texts made of exactly k chunks.
RECURSIVE TextsOf(_)
TextsOf(k) ==
    IF k = 0 THEN {<<>>}
    ELSE {c \o t : c \in Chunks, t \in TextsOf(k - 1)}

\* A file of another kind (say a .mjs file) that holds a matching import line.
OtherFile == [js |-> FALSE, bytes |-> SubImport]

\* The trees of n files that hold at most budget chunks together: each file
\* is a .js file of some chunks or the one-chunk file of another kind.
RECURSIVE TreesOf(_, _)
TreesOf(n, budget) ==
    IF n = 0 THEN {<<>>}
    ELSE UNION {UNION {{<<[js |-> TRUE, bytes |-> t]>> \o rest :
                           rest \in TreesOf(n - 1, budget - k)} :
                       t \in TextsOf(k)} :
                k \in 0..budget}
         \cup (IF budget = 0 THEN {}
               ELSE {<<OtherFile>> \o rest : rest \in TreesOf(n - 1, budget - 1)})

Trees == UNION {TreesOf(n, MaxChunks) : n \in 0..MaxFiles}

(***************************************************************************)
(* State.  Of the program: dirExists (dist/ exists), disk (the files under *)
(* dist/, each a .js file or not, with its bytes), pc (glob, loop, write,  *)
(* done, aborted), rule (the first or the second loop), files (what is     *)
(* left of the glob), f, content, new_content, count1, count2, output (the *)
(* lines printed).  History: runs (the tree each earlier run started       *)
(* from), failed (an exception was raised), reads and writes (reads and    *)
(* writes per loop and file in this run), disk0 and disk1 (the tree when   *)
(* this run and when its second loop started).                             *)
(***************************************************************************)
VARIABLES dirExists, disk, pc, rule, files, f, content, new_content,
          count1, count2, output, runs, failed, reads, writes, disk0, disk1

vars == <<dirExists, disk, pc, rule, files, f, content, new_content,
          count1, count2, output, runs, failed, reads, writes, disk0, disk1>>

NoIO(d) == [r \in 1..2 |-> [i \in 1..Len(d) |-> 0]]

Init ==
    /\ dirExists \in BOOLEAN
    /\ disk \in (IF dirExists THEN Trees ELSE {<<>>})
    /\ pc = "glob"
    /\ rule = 1
    /\ files = <<>>
    /\ f = 0
    /\ content = <<>>
    /\ new_content = <<>>
    /\ count1 = 0
    /\ count2 = 0
    /\ output = <<>>
    /\ runs = <<>>
    /\ failed = FALSE
    /\ reads = NoIO(disk)
    /\ writes = NoIO(disk)
    /\ disk0 = disk
    /\ disk1 = disk

\* count = 0; for f in glob.glob(...):
StartPass ==
    /\ pc = "glob"
    /\ files' = Glob(disk, dirExists)
    /\ count1' = IF rule = 1 THEN 0 ELSE count1
    /\ count2' = IF rule = 2 THEN 0 ELSE count2
    /\ pc' = "loop"
    /\ UNCHANGED <<dirExists, disk, rule, f, content, new_content, output,
                   runs, failed, reads, writes, disk0, disk1>>

\* with open(f, 'r') as fh: content = fh.read(); new_content = PATTERN.sub(INLINE, content)
ReadFile ==
    /\ pc = "loop"
    /\ files # <<>>
    /\ f' = Head(files)
    /\ files' = Tail(files)
    /\ content' = ReadText(disk[f'].bytes)
    /\ new_content' = Sub(PatternOf(rule), INLINE, content')
    /\ reads' = [reads EXCEPT ![rule][f'] = @ + 1]
    /\ pc' = IF NeedsWrite(content', new_content') THEN "write" ELSE "loop"
    /\ UNCHANGED <<dirExists, disk, rule, count1, count2, output, runs,
                   failed, writes, disk0, disk1>>

\* open(f, 'r') or fh.read() raises.
ReadFails ==
    /\ pc = "loop"
    /\ files # <<>>
    /\ f' = Head(files)
    /\ files' = Tail(files)
    /\ failed' = TRUE
    /\ pc' = Uncaught
    /\ UNCHANGED <<dirExists, disk, rule, content, new_content, count1, count2,
                   output, runs, reads, writes, disk0, disk1>>

\* with open(f, 'w') as fh: fh.write(new_content); count += 1
WriteFile ==
    /\ pc = "write"
    /\ disk' = [disk EXCEPT ![f].bytes = WriteText(new_content)]
    /\ writes' = [writes EXCEPT ![rule][f] = @ + 1]
    /\ count1' = IF rule = 1 THEN Incr(count1) ELSE count1
    /\ count2' = IF rule = 2 THEN Incr(count2) ELSE count2
    /\ pc' = "loop"
    /\ UNCHANGED <<dirExists, rule, files, f, content, new_content, output,
                   runs, failed, reads, disk0, disk1>>

\* open(f, 'w') raises and the file is as it was, or it has truncated the
\* file and fh.write raises.
WriteFails ==
    /\ pc = "write"
    /\ \E truncated \in BOOLEAN :
          disk' = IF truncated THEN [disk EXCEPT ![f].bytes = <<>>] ELSE disk
    /\ failed' = TRUE
    /\ pc' = Uncaught
    /\ UNCHANGED <<dirExists, rule, files, f, content, new_content, count1,
                   count2, output, runs, reads, writes, disk0, disk1>>

\* print(f"[1/2] Patched {count1} files ..."), then the second pass
PrintFirst ==
    /\ pc = "loop"
    /\ files = <<>>
    /\ rule = 1
    /\ output' = Append(output, Summary(1, count1))
    /\ rule' = 2
    /\ disk1' = disk
    /\ pc' = "glob"
    /\ UNCHANGED <<dirExists, disk, files, f, content, new_content, count1,
                   count2, runs, failed, reads, writes, disk0>>

\* print(f"[2/2] Patched {count2} files ..."), then the end of the script
PrintSecond ==
    /\ pc = "loop"
    /\ files = <<>>
    /\ rule = 2
    /\ output' = Append(output, Summary(2, count2))
    /\ pc' = "done"
    /\ UNCHANGED <<dirExists, disk, rule, files, f, content, new_content,
                   count1, count2, runs, failed, reads, writes, disk0, disk1>>

\* The script is run again on the tree the first run left; runs keeps the
\* tree each earlier run started from.
RunAgain ==
    /\ pc = "done"
    /\ runs = <<>>
    /\ runs' = <<disk0>>
    /\ pc' = "glob"
    /\ rule' = 1
    /\ files' = <<>>
    /\ f' = 0
    /\ content' = <<>>
    /\ new_content' = <<>>
    /\ count1' = 0
    /\ count2' = 0
    /\ output' = <<>>
    /\ reads' = NoIO(disk)
    /\ writes' = NoIO(disk)
    /\ disk0' = disk
    /\ disk1' = disk
    /\ UNCHANGED <<dirExists, disk, failed>>

Next ==
    \/ StartPass
    \/ ReadFile
    \/ ReadFails
    \/ WriteFile
    \/ WriteFails
    \/ PrintFirst
    \/ PrintSecond
    \/ RunAgain

Spec == Init /\ [][Next]_vars

(***************************************************************************)
(* Notions the properties are stated with.                                 *)
(***************************************************************************)
AllFiles == 1..Len(disk)
JsFiles == {i \in AllFiles : disk[i].js}

\* The text of file i of tree d, as a text-mode read returns it.
Text(d, i) == ReadText(d[i].bytes)

\* The positions of s where a match of pat starts.
Occurrences(pat, s) == {i \in 1..Len(s) : MatchEnd(pat, 1, s, i) # 0}

NoImport(s) ==
    Occurrences(CIRCULAR_PATTERN, s) = {} /\ Occurrences(RESERVED_PATTERN, s) = {}

\* The number of copies of the INLINE block in s.
InlineCount(s) ==
    Cardinality({i \in 1..Len(s) :
                    /\ i + Len(INLINE) - 1 <= Len(s)
                    /\ SubSeq(s, i, i + Len(INLINE) - 1) = INLINE})

TwoZeroLines == <<Summary(1, 0), Summary(2, 0)>>

\* C1: a file whose text holds no match of either import pattern keeps its
\* bytes and is never written, whatever the other files of the tree hold.
C1_UnmatchedFileUntouched ==
    \A i \in AllFiles :
        NoImport(Text(disk0, i)) =>
            /\ disk[i] = disk0[i]
            /\ writes[1][i] = 0
            /\ writes[2][i] = 0

C1_Witness ==
    /\ pc = "done"
    /\ runs = <<>>
    /\ \E i \in JsFiles, j \in JsFiles :
          /\ NoImport(Text(disk0, i))
          /\ disk0[i].bytes # <<>>
          /\ reads[1][i] = 1
          /\ reads[2][i] = 1
          /\ disk[j] # disk0[j]

\* C2, as the spec states it: a file that holds exactly one match of a rule's
\* pattern before the run holds no match of it and exactly one INLINE block
\* after the run, whatever else it holds.
C2_ExactlyOneInline ==
    pc = "done" =>
        \A i \in JsFiles, r \in 1..2 :
            Cardinality(Occurrences(PatternOf(r), Text(disk0, i))) = 1 =>
                /\ Occurrences(PatternOf(r), Text(disk, i)) = {}
                /\ InlineCount(Text(disk, i)) = 1

\* C2, amended: such a file holds no match of the pattern after the run, and
\* one INLINE block more for that match: one more than the blocks it held
\* before plus the matches of the other rule's pattern, hence exactly one
\* when it held no INLINE block and no import of the other family.
C2_OneMoreInline ==
    pc = "done" =>
        \A i \in JsFiles, r \in 1..2 :
            Cardinality(Occurrences(PatternOf(r), Text(disk0, i))) = 1 =>
                /\ Occurrences(PatternOf(r), Text(disk, i)) = {}
                /\ InlineCount(Text(disk, i)) =
                      InlineCount(Text(disk0, i)) + 1
                      + Cardinality(Occurrences(PatternOf(3 - r), Text(disk0, i)))

C2_Witness ==
    /\ pc = "done"
    /\ runs = <<>>
    /\ \E i \in JsFiles :
          /\ Cardinality(Occurrences(CIRCULAR_PATTERN, Text(disk0, i))) = 1
          /\ InlineCount(Text(disk0, i)) = 1
          /\ InlineCount(Text(disk, i)) = 2

\* C3: a second run of the patcher writes no file and leaves every file as
\* the first run left it, since INLINE holds no match of either pattern.
C3_Idempotent ==
    /\ NoImport(INLINE)
    /\ runs # <<>> =>
          /\ disk = disk0
          /\ writes = NoIO(disk)
          /\ pc # "write"
          /\ count1 = 0
          /\ count2 = 0
          /\ pc = "done" => output = TwoZeroLines

C3_Witness ==
    /\ runs # <<>>
    /\ pc = "done"
    /\ runs[1] # disk
    /\ \E i \in JsFiles : reads[1][i] = 1 /\ reads[2][i] = 1 /\ runs[1][i] # disk[i]

\* The pattern pat with its closing "\n" spelt "\r\n".
EndingCRLF(pat) == SubSeq(pat, 1, Len(pat) - 1) \o <<Lit("CR"), Lit("LF")>>

\* The bytes b with every import line of either family, ending in "\n" or
\* in "\r\n", replaced by INLINE and every other byte kept.
ImportsInlined(b) ==
    LET b1 == Sub(CIRCULAR_PATTERN, INLINE, b)
        b2 == Sub(EndingCRLF(CIRCULAR_PATTERN), INLINE, b1)
        b3 == Sub(RESERVED_PATTERN, INLINE, b2)
    IN  Sub(EndingCRLF(RESERVED_PATTERN), INLINE, b3)

\* C4: after a run every .js file holds its original content with each
\* matching import line of either family replaced in place by the same
\* INLINE block, and everything outside the matched lines unchanged and in
\* its original order.
C4_ReplacedInPlace ==
    pc = "done" => \A i \in JsFiles : disk[i].bytes = ImportsInlined(disk0[i].bytes)

\* C5: in each pass a visited file is written exactly when the substituted
\* content differs from the content read, the rule's counter goes up by one
\* with each write, and at the end of the pass the counter, which is the
\* count the summary line reports, is the number of files the pass changed.
PassOver(r) == IF r = 1 THEN rule = 2 ELSE pc = "done"
Before(r) == IF r = 1 THEN disk0 ELSE disk1
After(r) == IF r = 1 THEN disk1 ELSE disk
CountOf(r) == IF r = 1 THEN count1 ELSE count2

C5_CountIsFilesChanged ==
    /\ pc \in {"loop", "done"} =>
          CountOf(rule) = Cardinality({i \in AllFiles : writes[rule][i] = 1})
    /\ \A r \in 1..2 :
          PassOver(r) =>
              /\ \A i \in AllFiles :
                    writes[r][i] =
                        IF /\ disk[i].js
                           /\ Sub(PatternOf(r), INLINE, Text(Before(r), i)) # Text(Before(r), i)
                        THEN 1 ELSE 0
              /\ CountOf(r) = Cardinality({i \in AllFiles : After(r)[i] # Before(r)[i]})
              /\ output[r] = Summary(r, CountOf(r))

C5_Witness ==
    /\ pc = "done"
    /\ runs = <<>>
    /\ count1 = 1
    /\ output[1] = Summary(1, 1)
    /\ \E i \in JsFiles :
          /\ Cardinality(Occurrences(CIRCULAR_PATTERN, Text(disk0, i))) = 2
          /\ writes[1][i] = 1

\* C6: when the tree holds no .js file the run reads and writes nothing,
\* cannot fail, and ends normally having printed a count of 0 for each rule.
C6_EmptyTree ==
    (dirExists /\ JsFiles = {}) =>
        /\ reads = NoIO(disk)
        /\ writes = NoIO(disk)
        /\ disk = disk0
        /\ ~failed
        /\ pc \in {"glob", "loop", "done"}
        /\ files = <<>>
        /\ \A k \in 1..Len(output) : output[k] = Summary(k, 0)
        /\ pc = "done" => output = TwoZeroLines

C6_Witness ==
    /\ dirExists
    /\ disk = <<>>
    /\ runs = <<>>
    /\ pc = "done"
    /\ output = TwoZeroLines

\* C7, as the spec states it: a failed read, a failed write and a missing
\* dist/ directory are all fatal, so a run that ends normally has met none.
C7_AnyFailureFatal == pc = "done" => (~failed /\ dirExists)

\* C7, amended: a failed read or write is fatal: the run stops there, the
\* files not yet visited in the pass are neither read nor written, the
\* pass's summary line and every later one is not printed, and the run does
\* not end normally.  A missing dist/ directory is no failure: the glob is
\* empty and the run ends normally with a count of 0 for each rule.
C7_IOFailureFatal ==
    /\ failed =>
          /\ pc = "aborted"
          /\ ~ENABLED Next
          /\ Len(output) = rule - 1
          /\ \A k \in 1..Len(files) :
                reads[rule][files[k]] = 0 /\ writes[rule][files[k]] = 0
          /\ rule = 1 => reads[2] = NoIO(disk)[2]
    /\ pc = "aborted" => failed
    /\ ~dirExists =>
          /\ ~failed
          /\ pc = "done" => output = TwoZeroLines

C7_Witness ==
    /\ failed
    /\ pc = "aborted"
    /\ rule = 1
    /\ files # <<>>
    /\ output = <<>>

\* The summary lines printed so far are the first lines of the report, in
\* rule order.
InRuleOrder(out) ==
    /\ Len(out) <= 2
    /\ \A k \in 1..Len(out) :
          out[k].step = k /\ out[k].family = Summary(k, 0).family

\* C8, as the spec states it: the summary lines come in rule order and, once
\* the first of them is printed, no rule reads or writes a file any more.
C8_SummaryAfterAllFiles ==
    [][(output # <<>> /\ output' # <<>>) =>
          (reads' = reads /\ writes' = writes /\ InRuleOrder(output'))]_vars

\* C8, amended: each summary line is printed only after its own rule's pass
\* has visited every file: line [1/2] after the first pass and before the
\* second pass reads any file, line [2/2] after the second pass, when no
\* file is read or written any more; the lines come in rule order.
C8_SummaryAfterOwnPass ==
    /\ InRuleOrder(output)
    /\ output = <<>> => (rule = 1 /\ reads[2] = NoIO(disk)[2] /\ writes[2] = NoIO(disk)[2])
    /\ output # <<>> =>
          /\ \A i \in JsFiles : reads[1][i] = 1
          /\ output[1].count = count1
          /\ rule = 2
    /\ Len(output) = 2 =>
          /\ \A i \in JsFiles : reads[2][i] = 1
          /\ output[2].count = count2
          /\ pc = "done"
          /\ files = <<>>

C8_Witness ==
    /\ Len(output) = 1
    /\ rule = 2
    /\ pc = "write"
    /\ writes[1][f] = 1

\* C9, as the spec states it: in one run each discovered file is read
\* exactly once, and every rule works on that one read.
C9_ReadOnce ==
    pc = "done" => \A i \in JsFiles : reads[1][i] + reads[2][i] = 1

\* C9, amended: in one run each discovered file is read exactly once by each
\* rule, twice in all; a rule works on the content its own read returned,
\* which for the second rule is what the first rule left on disk; a file the
\* glob does not discover is never read.
C9_ReadOncePerRule ==
    /\ \A r \in 1..2, i \in AllFiles : reads[r][i] <= (IF disk[i].js THEN 1 ELSE 0)
    /\ pc = "done" => \A r \in 1..2, i \in JsFiles : reads[r][i] = 1
    /\ pc = "write" =>
          /\ content = Text(Before(rule), f)
          /\ new_content = Sub(PatternOf(rule), INLINE, content)
          /\ reads[rule][f] = 1

C9_Witness ==
    /\ pc = "write"
    /\ rule = 2
    /\ reads[1][f] = 1
    /\ reads[2][f] = 1
    /\ disk1[f] # disk0[f]
    /\ content = ReadText(disk1[f].bytes)
    /\ content # ReadText(disk0[f].bytes)

\* What one pass with pattern pat makes of the bytes b of a file.
PassOn(pat, b) ==
    LET c == ReadText(b)
        n == Sub(pat, INLINE, c)
    IN  IF NeedsWrite(c, n) THEN WriteText(n) ELSE b

\* The tokens of s that the match of pat starting at i covers.
Span(pat, s, i) == i..(MatchEnd(pat, 1, s, i) - 1)

\* C10: the second pass works on what the first pass left on disk; no match
\* of one pattern overlaps a match of the other and INLINE matches neither,
\* so every file ends as if the rules had run in the opposite order, with no
\* import of either family left in it.
C10_OrderIndependent ==
    /\ NoImport(INLINE)
    /\ \A i \in JsFiles :
          \A a \in Occurrences(CIRCULAR_PATTERN, Text(disk0, i)),
             b \in Occurrences(RESERVED_PATTERN, Text(disk0, i)) :
                Span(CIRCULAR_PATTERN, Text(disk0, i), a)
                    \cap Span(RESERVED_PATTERN, Text(disk0, i), b) = {}
    /\ pc = "write" /\ rule = 2 => content = Text(disk1, f)
    /\ pc = "done" =>
          \A i \in JsFiles :
              /\ disk[i].bytes =
                    PassOn(CIRCULAR_PATTERN, PassOn(RESERVED_PATTERN, disk0[i].bytes))
              /\ NoImport(Text(disk, i))

C10_Witness ==
    /\ pc = "done"
    /\ runs = <<>>
    /\ \E i \in JsFiles :
          /\ Occurrences(CIRCULAR_PATTERN, Text(disk0, i)) # {}
          /\ Occurrences(RESERVED_PATTERN, Text(disk0, i)) # {}
          /\ writes[1][i] = 1
          /\ writes[2][i] = 1
          /\ InlineCount(Text(disk, i)) = 2

====
